---- MODULE Spec2Model ----
(***************************************************************************)
(* Model of the axvisor task scripts (scripts/task.py and the handlers     *)
(* scripts/{setup,build,run,clean,disk_img,clippy}.py).                    *)
(*                                                                         *)
(* One invocation of task.py at a time runs against a persistent workspace *)
(* (the .arceos checkout, the persisted config file, Cargo.toml).  External*)
(* processes (git, make, cargo) are inputs: each execution ends with an    *)
(* exit code, a spawn error, or a KeyboardInterrupt.                       *)
(*                                                                         *)
(* A feature name is modelled by its str.split("-") image: a non-empty     *)
(* sequence of dash-free tokens ("plat-aarch64-qemu" is                    *)
(* <<"plat","aarch64","qemu">>, "plat-" is <<"plat","">>, "plat" is        *)
(* <<"plat">>).  split/join are mutually inverse, so nothing is lost.      *)
(***************************************************************************)
EXTENDS Integers, Sequences, FiniteSets, TLC

\* ------------------------------------------------------------------ bounds
MaxFeatures == 3
MaxExitCode == 2

\* ------------------------------------------------------------- value sets
None == "None"

FeatureNames ==
    { <<"plat", "aarch64", "qemu">>,
      <<"plat", "x86_64", "pc">>,
      <<"plat", "foo", "bar">>,
      <<"plat">>,
      <<"fs">>,
      <<"net">> }

\* keys of a parsed TOML table: distinct, in declaration order
FeatureLists ==
    { s \in UNION { [1..k -> FeatureNames] : k \in 0..MaxFeatures } :
        \A i, j \in DOMAIN s : i # j => s[i] # s[j] }

Manifests ==
    { [state |-> "missing", features |-> <<>>],
      [state |-> "unparseable", features |-> <<>>] }
    \cup { [state |-> "ok", features |-> fs] : fs \in FeatureLists }

Commands == {"setup", "build", "run", "clippy", "clean", "disk_img"}

PlatValues == {"aarch64-qemu-virt-hv", "x86_64-qemu-q35"}

NoArgs == [plat |-> None, arch |-> None, image |-> None]

\* the argparse namespaces the model draws from (task.py create_parser)
ArgsOf(cmd) ==
    CASE cmd \in {"build", "run"} ->
            { [NoArgs EXCEPT !.plat = p] : p \in PlatValues \cup {None} }
      [] cmd = "clippy" ->
            { [NoArgs EXCEPT !.arch = a] : a \in {"aarch64", "x86_64"} }
      [] cmd = "disk_img" ->
            { [NoArgs EXCEPT !.image = i] : i \in {"disk.img", ""} }
      [] OTHER -> { NoArgs }

\* how one process execution ends
ExitOutcome(c) == [kind |-> "exit", code |-> c]
SpawnError == [kind |-> "error", code |-> 0]
Interrupted == [kind |-> "interrupt", code |-> 0]
Outcomes == { ExitOutcome(c) : c \in 0..MaxExitCode } \cup {SpawnError, Interrupted}

Succeeded(o) == o.kind = "exit" /\ o.code = 0

\* ------------------------------------------------ clippy: pure functions
\* f.startswith("plat-"): the first segment is "plat" and a dash follows it
StartsWithPlat(f) == Len(f) >= 2 /\ f[1] = "plat"

PlatFeatures(all_features) == SelectSeq(all_features, StartsWithPlat)

NotPlat(f) == ~StartsWithPlat(f)

NonPlatFeaturesAll(all_features) == all_features

NonPlatFeatures(all_features) == SelectSeq(all_features, NotPlat)

ArchTargetKeys == {"aarch64", "x86", "x86_64", "riscv64", "riscv"}

arch_target_map ==
    [a \in ArchTargetKeys |->
        CASE a = "aarch64" -> "aarch64-unknown-none-softfloat"
          [] a = "x86"     -> "x86_64-unknown-none"
          [] a = "x86_64"  -> "x86_64-unknown-none"
          [] a = "riscv64" -> "riscv64gc-unknown-none-elf"
          [] a = "riscv"   -> "riscv64gc-unknown-none-elf"]

ArchTokenFirst(parts) == IF Len(parts) > 1 THEN parts[1] ELSE None

\* parts[1] if len(parts) > 1 else None   (Python indexes from 0)
ArchToken(parts) == IF Len(parts) > 1 THEN parts[2] ELSE None

\* dict.get: None for a key that is not in the table
MapGetDefault(tok) ==
    IF tok \in ArchTargetKeys THEN arch_target_map[tok]
    ELSE "aarch64-unknown-none-softfloat"

MapGet(tok) == IF tok \in ArchTargetKeys THEN arch_target_map[tok] ELSE None

\* arch_target_map.get(arch_token) if arch_token else None
\* (None and the empty string are falsy)
TargetOf(plat) ==
    LET arch_token == ArchToken(plat)
    IN  IF arch_token # None /\ arch_token # "" THEN MapGet(arch_token) ELSE None

\* [plat] + non_plat_features
FeaturesToUse(plat, non_plat_features) == <<plat>> \o non_plat_features

\* the command of one matrix cell; an empty features_arg or a None target
\* leaves the option out
CellCmd(plat, non_plat_features) ==
    [prog |-> "cargo", sub |-> "clippy", target |-> TargetOf(plat),
     features |-> FeaturesToUse(plat, non_plat_features),
     extra |-> None, deny |-> TRUE]

SingleCmdWithArch(all_features) ==
    [prog |-> "cargo", sub |-> "clippy",
     target |-> "aarch64-unknown-none-softfloat",
     features |-> all_features, extra |-> None, deny |-> FALSE]

\* the command of the single pass: all features, no --target, no -D warnings
SingleCmd(all_features) ==
    [prog |-> "cargo", sub |-> "clippy", target |-> None,
     features |-> all_features, extra |-> None, deny |-> FALSE]

\* -------------------------------------- result code of a try/except block
\* try: subprocess.run(cmd, shell=True, check=True); return 0
\* except CalledProcessError as e: return e.returncode
\* except Exception: return 1
\* (a KeyboardInterrupt is no Exception: it is not handled here)
BuildResultGeneric(o) == IF Succeeded(o) THEN 0 ELSE 1

BuildResult(o) ==
    IF o.kind = "exit" THEN o.code ELSE 1

RunResult(o) ==
    IF o.kind = "exit" THEN o.code ELSE 1

CleanResult(o) ==
    IF o.kind = "exit" THEN o.code ELSE 1

DiskImgResult(o) ==
    IF o.kind = "exit" THEN o.code ELSE 1

ClippySingleResult(o) ==
    IF o.kind = "exit" THEN o.code ELSE 1

\* build.py:54: return 0 once the process has succeeded, whatever
\* save_config_to_file returned
BuildSuccessResultSaved(saved) == IF saved THEN 0 ELSE 1

BuildSuccessResult(saved) == 0

\* KeyboardInterrupt is a BaseException: `except CalledProcessError` and
\* `except Exception` do not catch it, it leaves the handler
PropagatesNever(o) == FALSE

Propagates(o) == o.kind = "interrupt"

\* setup.py:11: if not os.path.exists(arceos_dir)
NeedsCloneAlways(dirExists) == TRUE

NeedsClone(dirExists) == ~dirExists

\* clippy.py:36-41: _toml_impl.load raises on a file that is not TOML
ParseFailsIgnored(m) == FALSE

ParseFails(m) == m.state = "unparseable"

\* if not setup_arceos(): ... return 1
SetupFailedIgnored(ok) == FALSE

SetupFailed(ok) == ~ok

\* if not config_exists: save_config_to_file(...)
ShouldSaveAlways(exists_at_start) == TRUE

ShouldSave(exists_at_start) == ~exists_at_start

\* the for loop goes on to the next platform whatever the cell's outcome
NextCellFailFast(i, n, failed) == IF failed THEN n + 1 ELSE i + 1

NextCell(i, n, failed) == i + 1

\* any_failure = True in both except branches, never reset
AnyFailureLastOnly(prev, failed) == failed

AnyFailure(prev, failed) == prev \/ failed

\* return 1 if any_failure else 0
ClippyResult(failure) == IF failure THEN 1 ELSE 0

\* ------------------------------------------- config (scripts/config.py)
DefaultPlat == "default-plat"

AbsentFile == [exists |-> FALSE, plat |-> None]

create_config_persisted_first(a, persisted) ==
    [plat |-> IF persisted.exists /\ persisted.plat # None THEN persisted.plat
              ELSE IF a.plat # None THEN a.plat
              ELSE DefaultPlat]

\* CLI value if set, else the persisted value if present, else the default
create_config_from_args(a, persisted) ==
    [plat |-> IF a.plat # None THEN a.plat
              ELSE IF persisted.exists /\ persisted.plat # None THEN persisted.plat
              ELSE DefaultPlat]

\* the file after save_config_to_file: written whole when it succeeds,
\* untouched when it fails
save_config_to_file(config, file, ok) ==
    IF ok THEN [exists |-> TRUE, plat |-> config.plat] ELSE file

\* config.format_make_command(sub)
format_make_command(config, sub) ==
    [prog |-> "make", sub |-> sub, target |-> None, features |-> <<>>,
     extra |-> config.plat, deny |-> FALSE]

\* format_make_command_base() + [..., sub]
MakeBaseCmd(sub, extraArg) ==
    [prog |-> "make", sub |-> sub, target |-> None, features |-> <<>>,
     extra |-> extraArg, deny |-> FALSE]

GitCloneCmd ==
    [prog |-> "git", sub |-> "clone", target |-> None, features |-> <<>>,
     extra |-> ".arceos", deny |-> FALSE]

\* os.path.abspath(os.path.join(os.getcwd(), image_path)) for a relative path
AbsPath(path) == IF path = "disk.img" THEN "/cwd/disk.img" ELSE path

\* ------------------------------------------------------------------ state
VARIABLES
    rootManifest,   \* PROJECT_ROOT/Cargo.toml exists
    manifest,       \* Cargo.toml of the working directory
    tomlAvailable,  \* the toml package could be imported
    arceosDir,      \* the .arceos checkout exists
    cloned,         \* history: some invocation's clone has succeeded
    hvconfig,       \* the persisted configuration file
    pc,             \* position of the running invocation
    command,        \* args.command
    args,           \* the parsed arguments
    config,         \* run.py's config object
    config_exists,  \* build.py's config_exists
    setupDone,      \* setup_arceos has returned
    setupOk,        \* what setup_arceos returned
    idx,            \* position of clippy's for loop in plat_features
    any_failure,    \* clippy's any_failure
    build_result,   \* what build.main returned (Unset before it returns)
    returned,       \* the handler returned to run_command
    result,         \* the handler's return value
    exitCode,       \* the status passed to sys.exit
    interrupted,    \* history: a KeyboardInterrupt reached task.py's __main__
    execs,          \* history: the processes executed by this invocation
    saveCalls,      \* history: calls of save_config_to_file
    hvconfig0       \* history: the persisted file when the invocation began

vars == <<rootManifest, manifest, tomlAvailable, arceosDir, cloned, hvconfig, pc,
          command, args, config, config_exists, setupDone, setupOk, idx,
          any_failure, build_result, returned, result, exitCode, interrupted, execs,
          saveCalls, hvconfig0>>

env == <<rootManifest, manifest, tomlAvailable>>

Unset == -1

NoConfig == [plat |-> None]

all_features == manifest.features

plat_features_for_arch ==
    SelectSeq(PlatFeatures(all_features), LAMBDA f : f[2] = args.arch)

plat_features == PlatFeatures(all_features)

non_plat_features == NonPlatFeatures(all_features)

FreshInvocation ==
    /\ command = None
    /\ args = NoArgs
    /\ config = NoConfig
    /\ config_exists = FALSE
    /\ setupDone = FALSE
    /\ setupOk = FALSE
    /\ idx = 1
    /\ any_failure = FALSE
    /\ build_result = Unset
    /\ returned = FALSE
    /\ result = Unset
    /\ exitCode = Unset
    /\ interrupted = FALSE
    /\ execs = <<>>
    /\ saveCalls = 0

Init ==
    /\ rootManifest \in BOOLEAN
    /\ manifest \in Manifests
    /\ tomlAvailable \in BOOLEAN
    /\ arceosDir \in BOOLEAN
    /\ cloned = FALSE
    /\ hvconfig \in {AbsentFile}
                    \cup { [exists |-> TRUE, plat |-> p] : p \in PlatValues \cup {None} }
    /\ hvconfig0 = hvconfig
    /\ pc = "idle"
    /\ FreshInvocation

\* ------------------------------------------------------- building blocks
Exec(cmd, o) == execs' = Append(execs, [cmd |-> cmd, outcome |-> o])

\* the handler returns r; run_command and main pass it to sys.exit
Return(r) ==
    /\ pc' = "done"
    /\ returned' = TRUE
    /\ result' = r
    /\ exitCode' = r
    /\ UNCHANGED interrupted

\* KeyboardInterrupt leaves every handler and reaches task.py's __main__
RaiseInterrupt ==
    /\ pc' = "done"
    /\ exitCode' = 130
    /\ interrupted' = TRUE
    /\ UNCHANGED <<returned, result>>

BuildReturnsUnchecked(r) ==
    /\ build_result' = r
    /\ IF command = "build"
       THEN Return(r)
       ELSE pc' = "run_exec" /\ UNCHANGED <<returned, result, exitCode, interrupted>>

\* build.main returns r: to run_command, or to run.main (run.py:20-23)
BuildReturns(r) ==
    /\ build_result' = r
    /\ IF command = "build" \/ r # 0
       THEN Return(r)
       ELSE pc' = "run_exec" /\ UNCHANGED <<returned, result, exitCode, interrupted>>

\* ---------------------------------------------------------------- actions
\* task.py main and run_command: the working-directory check, then dispatch
TaskMain(cmd, a) ==
    /\ pc = "idle"
    /\ command' = cmd
    /\ args' = a
    /\ hvconfig0' = hvconfig
    /\ \/ /\ ~rootManifest
          /\ pc' = "done"
          /\ exitCode' = 1
          /\ UNCHANGED <<returned, interrupted, result>>
       \/ /\ rootManifest
          /\ pc' = CASE cmd = "run" -> "run_enter"
                     [] cmd = "build" -> "build_enter"
                     [] OTHER -> "setup"
          /\ UNCHANGED <<returned, interrupted, result, exitCode>>
    /\ UNCHANGED <<env, arceosDir, cloned, hvconfig, config, config_exists, setupDone, setupOk,
                   idx, any_failure, build_result, execs, saveCalls>>

\* run.py:16-20: resolve the config, then call build.main
RunEnter ==
    /\ pc = "run_enter"
    /\ config' = create_config_from_args(args, hvconfig)
    /\ pc' = "build_enter"
    /\ UNCHANGED <<env, arceosDir, cloned, hvconfig, command, args, config_exists,
                   setupDone, setupOk, idx, any_failure, build_result, returned, interrupted, result,
                   exitCode, execs, saveCalls, hvconfig0>>

\* build.py:15-18: remember whether the config file exists
BuildEnter ==
    /\ pc = "build_enter"
    /\ config_exists' = hvconfig.exists
    /\ pc' = "setup"
    /\ UNCHANGED <<env, arceosDir, cloned, hvconfig, command, args, config, setupDone, setupOk,
                   idx, any_failure, build_result, returned, interrupted, result, exitCode,
                   execs, saveCalls, hvconfig0>>

\* setup.py setup_arceos: clone only when .arceos is absent
SetupArceos(o) ==
    /\ pc = "setup"
    /\ \/ /\ ~NeedsClone(arceosDir)
          /\ o = ExitOutcome(0)
          /\ setupOk' = TRUE
          /\ setupDone' = TRUE
          /\ pc' = "setup_done"
          /\ UNCHANGED <<arceosDir, cloned, execs, returned, interrupted, result,
                         exitCode>>
       \/ /\ NeedsClone(arceosDir)
          /\ ~Propagates(o)
          /\ Exec(GitCloneCmd, o)
          /\ arceosDir' = (arceosDir \/ Succeeded(o))
          /\ cloned' = (cloned \/ Succeeded(o))
          /\ setupOk' = Succeeded(o)
          /\ setupDone' = TRUE
          /\ pc' = "setup_done"
          /\ UNCHANGED <<returned, interrupted, result, exitCode>>
       \/ /\ NeedsClone(arceosDir)
          /\ Propagates(o)
          /\ Exec(GitCloneCmd, o)
          /\ RaiseInterrupt
          /\ UNCHANGED <<arceosDir, cloned, setupOk, setupDone>>
    /\ UNCHANGED <<env, hvconfig, command, args, config, config_exists, idx,
                   any_failure, build_result, saveCalls, hvconfig0>>

\* setup.py main
SetupMain ==
    /\ pc = "setup_done"
    /\ command = "setup"
    /\ Return(IF setupOk THEN 0 ELSE 1)
    /\ UNCHANGED <<env, arceosDir, cloned, hvconfig, command, args, config,
                   config_exists, setupDone, setupOk, idx, any_failure, build_result,
                   execs, saveCalls, hvconfig0>>

\* build.py:20-60, after setup_arceos has returned
BuildMain(o, saved) ==
    /\ pc = "setup_done"
    /\ command \in {"build", "run"}
    /\ \/ /\ SetupFailed(setupOk)
          /\ o = ExitOutcome(0) /\ saved
          /\ BuildReturns(1)
          /\ UNCHANGED <<hvconfig, execs, saveCalls>>
       \/ /\ ~SetupFailed(setupOk)
          /\ LET cfg == create_config_from_args(args, hvconfig)
                 cmd == format_make_command(cfg, "")
             IN  /\ Exec(cmd, o)
                 /\ \/ /\ Succeeded(o)
                       /\ IF ShouldSave(config_exists)
                          THEN /\ hvconfig' = save_config_to_file(cfg, hvconfig, saved)
                               /\ saveCalls' = saveCalls + 1
                          ELSE /\ saved
                               /\ UNCHANGED <<hvconfig, saveCalls>>
                       /\ BuildReturns(BuildSuccessResult(saved))
                    \/ /\ ~Propagates(o)
                       /\ ~Succeeded(o)
                       /\ saved
                       /\ BuildReturns(BuildResult(o))
                       /\ UNCHANGED <<hvconfig, saveCalls>>
                    \/ /\ Propagates(o)
                       /\ saved
                       /\ RaiseInterrupt
                       /\ UNCHANGED <<hvconfig, saveCalls, build_result>>
    /\ UNCHANGED <<env, arceosDir, cloned, command, args, config, config_exists,
                   setupDone, setupOk, idx, any_failure, hvconfig0>>

\* run.py:24-41, after build.main has returned 0
RunMain(o) ==
    /\ pc = "run_exec"
    /\ Exec(format_make_command(config, "run"), o)
    /\ \/ /\ ~Propagates(o)
          /\ Return(RunResult(o))
       \/ /\ Propagates(o)
          /\ RaiseInterrupt
    /\ UNCHANGED <<env, arceosDir, cloned, hvconfig, command, args, config,
                   config_exists, setupDone, setupOk, idx, any_failure, build_result,
                   saveCalls, hvconfig0>>

\* clean.py main, after setup_arceos has returned
CleanMain(o) ==
    /\ pc = "setup_done"
    /\ command = "clean"
    /\ \/ /\ SetupFailed(setupOk)
          /\ o = ExitOutcome(0)
          /\ Return(1)
          /\ UNCHANGED execs
       \/ /\ ~SetupFailed(setupOk)
          /\ ~Propagates(o)
          /\ Exec(MakeBaseCmd("clean", None), o)
          /\ Return(CleanResult(o))
       \/ /\ ~SetupFailed(setupOk)
          /\ Propagates(o)
          /\ Exec(MakeBaseCmd("clean", None), o)
          /\ RaiseInterrupt
    /\ UNCHANGED <<env, arceosDir, cloned, hvconfig, command, args, config,
                   config_exists, setupDone, setupOk, idx, any_failure, build_result,
                   saveCalls, hvconfig0>>

\* disk_img.py main, after setup_arceos has returned
DiskImgMain(o) ==
    /\ pc = "setup_done"
    /\ command = "disk_img"
    /\ LET cmd == MakeBaseCmd("disk_img",
                      IF args.image # "" THEN AbsPath(args.image) ELSE None)
       IN  \/ /\ SetupFailed(setupOk)
              /\ o = ExitOutcome(0)
              /\ Return(1)
              /\ UNCHANGED execs
           \/ /\ ~SetupFailed(setupOk)
              /\ ~Propagates(o)
              /\ Exec(cmd, o)
              /\ Return(DiskImgResult(o))
           \/ /\ ~SetupFailed(setupOk)
              /\ Propagates(o)
              /\ Exec(cmd, o)
              /\ RaiseInterrupt
    /\ UNCHANGED <<env, arceosDir, cloned, hvconfig, command, args, config,
                   config_exists, setupDone, setupOk, idx, any_failure, build_result,
                   saveCalls, hvconfig0>>

\* clippy.py:21-51: the dependency, the manifest, the feature partition
ClippyLoad ==
    /\ pc = "setup_done"
    /\ command = "clippy"
    /\ \/ /\ SetupFailed(setupOk)
          /\ Return(1)
       \/ /\ ~SetupFailed(setupOk)
          /\ manifest.state = "missing"
          /\ Return(1)
       \/ /\ ~SetupFailed(setupOk)
          /\ manifest.state # "missing"
          /\ ~tomlAvailable
          /\ Return(1)
       \/ /\ ~SetupFailed(setupOk)
          /\ manifest.state # "missing"
          /\ tomlAvailable
          /\ ParseFails(manifest)
          /\ Return(1)
       \/ /\ ~SetupFailed(setupOk)
          /\ manifest.state # "missing"
          /\ tomlAvailable
          /\ ~ParseFails(manifest)
          /\ plat_features = <<>>
          /\ pc' = "clippy_single"
          /\ UNCHANGED <<returned, interrupted, result, exitCode>>
       \/ /\ ~SetupFailed(setupOk)
          /\ manifest.state # "missing"
          /\ tomlAvailable
          /\ ~ParseFails(manifest)
          /\ plat_features # <<>>
          /\ pc' = "clippy_loop"
          /\ UNCHANGED <<returned, interrupted, result, exitCode>>
    /\ idx' = 1
    /\ any_failure' = FALSE
    /\ UNCHANGED <<env, arceosDir, cloned, hvconfig, command, args, config,
                   config_exists, setupDone, setupOk, build_result, execs, saveCalls,
                   hvconfig0>>

\* clippy.py:51-70: the single pass with all features
ClippySingle(o) ==
    /\ pc = "clippy_single"
    /\ Exec(SingleCmd(all_features), o)
    /\ \/ /\ ~Propagates(o)
          /\ Return(ClippySingleResult(o))
       \/ /\ Propagates(o)
          /\ RaiseInterrupt
    /\ UNCHANGED <<env, arceosDir, cloned, hvconfig, command, args, config,
                   config_exists, setupDone, setupOk, idx, any_failure, build_result,
                   saveCalls, hvconfig0>>

\* clippy.py:82-117: one iteration of the loop over plat_features
ClippyCell(o) ==
    /\ pc = "clippy_loop"
    /\ idx <= Len(plat_features)
    /\ Exec(CellCmd(plat_features[idx], non_plat_features), o)
    /\ \/ /\ ~Propagates(o)
          /\ any_failure' = AnyFailure(any_failure, ~Succeeded(o))
          /\ idx' = NextCell(idx, Len(plat_features), ~Succeeded(o))
          /\ UNCHANGED <<pc, returned, interrupted, result, exitCode>>
       \/ /\ Propagates(o)
          /\ RaiseInterrupt
          /\ UNCHANGED <<any_failure, idx>>
    /\ UNCHANGED <<env, arceosDir, cloned, hvconfig, command, args, config,
                   config_exists, setupDone, setupOk, build_result, saveCalls, hvconfig0>>

\* clippy.py:119: the loop is over
ClippyReturn ==
    /\ pc = "clippy_loop"
    /\ idx > Len(plat_features)
    /\ Return(ClippyResult(any_failure))
    /\ UNCHANGED <<env, arceosDir, cloned, hvconfig, command, args, config,
                   config_exists, setupDone, setupOk, idx, any_failure, build_result,
                   execs, saveCalls, hvconfig0>>

\* task.py:165-170: a KeyboardInterrupt between two steps of a handler
Interrupt ==
    /\ pc \notin {"idle", "done"}
    /\ RaiseInterrupt
    /\ UNCHANGED <<env, arceosDir, cloned, hvconfig, command, args, config,
                   config_exists, setupDone, setupOk, idx, any_failure, build_result,
                   execs, saveCalls, hvconfig0>>

\* the process has exited; the next invocation starts from a fresh process
Finish ==
    /\ pc = "done"
    /\ pc' = "idle"
    /\ command' = None
    /\ args' = NoArgs
    /\ config' = NoConfig
    /\ config_exists' = FALSE
    /\ setupDone' = FALSE
    /\ setupOk' = FALSE
    /\ idx' = 1
    /\ any_failure' = FALSE
    /\ build_result' = Unset
    /\ returned' = FALSE
    /\ result' = Unset
    /\ exitCode' = Unset
    /\ interrupted' = FALSE
    /\ execs' = <<>>
    /\ saveCalls' = 0
    /\ hvconfig0' = hvconfig
    /\ UNCHANGED <<env, arceosDir, cloned, hvconfig>>

Next ==
    \/ \E cmd \in Commands : \E a \in ArgsOf(cmd) : TaskMain(cmd, a)
    \/ RunEnter
    \/ BuildEnter
    \/ \E o \in Outcomes : SetupArceos(o)
    \/ SetupMain
    \/ \E o \in Outcomes : \E saved \in BOOLEAN : BuildMain(o, saved)
    \/ \E o \in Outcomes : RunMain(o)
    \/ \E o \in Outcomes : CleanMain(o)
    \/ \E o \in Outcomes : DiskImgMain(o)
    \/ ClippyLoad
    \/ \E o \in Outcomes : ClippySingle(o)
    \/ \E o \in Outcomes : ClippyCell(o)
    \/ ClippyReturn
    \/ Interrupt
    \/ Finish

Spec == Init /\ [][Next]_vars

TypeOK ==
    /\ pc \in {"idle", "run_enter", "build_enter", "setup", "setup_done",
               "run_exec", "clippy_single", "clippy_loop", "done"}
    /\ command \in Commands \cup {None}
    /\ idx \in 1..(MaxFeatures + 1)
    /\ result \in {Unset} \cup 0..MaxExitCode
    /\ exitCode \in {Unset, 130} \cup 0..MaxExitCode
    /\ Len(execs) <= MaxFeatures + 3

\* ----------------------------------------------------- history operators
IsBuildTool(e) == e.cmd.prog \in {"make", "cargo"}
IsCargo(e) == e.cmd.prog = "cargo"
IsFailed(e) == ~Succeeded(e.outcome)

ToolExecs == SelectSeq(execs, IsBuildTool)
CargoExecs == SelectSeq(execs, IsCargo)

Range(seq) == { seq[i] : i \in DOMAIN seq }

SetupReturnedFalse == setupDone /\ ~setupOk

ExitedNormally == pc = "done" /\ exitCode # 130

\* clippy got past the manifest and found platform features
InMatrix ==
    /\ command = "clippy"
    /\ setupDone /\ setupOk
    /\ manifest.state = "ok" /\ tomlAvailable
    /\ Range(manifest.features) \cap { f \in FeatureNames : StartsWithPlat(f) } # {}

MatrixReturned == InMatrix /\ returned

\* C1: in build, run, clean, clippy and disk_img, once setup_arceos has
\* returned false no make/cargo process is ever executed, the handler does
\* nothing but return, and what it returns is non-zero.
C1_SetupFailureAborts ==
    (command \in {"build", "run", "clean", "clippy", "disk_img"}
        /\ SetupReturnedFalse)
    => /\ ToolExecs = <<>>
       /\ pc \in {"setup_done", "done"}
       /\ returned => result # 0
       /\ ExitedNormally => returned

C1_Witness ==
    /\ command = "run"
    /\ SetupReturnedFalse
    /\ returned
    /\ result = 1
    /\ Len(execs) = 1

\* C2: in the matrix sweep the loop position always equals the number of
\* cells executed plus one, any_failure is set exactly when some executed
\* cell failed (non-zero exit or spawn error), and when clippy returns the
\* i-th execution was the i-th platform feature: every cell ran exactly once.
C2_EveryCellAttemptedOnce ==
    /\ (InMatrix /\ pc = "clippy_loop")
        => /\ idx = Len(CargoExecs) + 1
           /\ any_failure <=> (\E i \in DOMAIN CargoExecs : IsFailed(CargoExecs[i]))
    /\ MatrixReturned
        => /\ Len(CargoExecs) = Len(plat_features)
           /\ \A i \in DOMAIN CargoExecs :
                CargoExecs[i].cmd.features[1] = plat_features[i]
           /\ \A i \in DOMAIN CargoExecs :
                IsFailed(CargoExecs[i]) => any_failure

\* cells [A(fail), B(success), C(fail)] of the spec
C2_Witness ==
    /\ MatrixReturned
    /\ Len(CargoExecs) = 3
    /\ CargoExecs[1].outcome = ExitOutcome(2)
    /\ CargoExecs[2].outcome = ExitOutcome(0)
    /\ CargoExecs[3].outcome = SpawnError
    /\ any_failure

\* C3: when clippy returns after executing cargo, it returns 0 exactly
\* when every executed cell exited with status zero.
C3_SuccessIffAllCellsSucceed ==
    (command = "clippy" /\ returned /\ CargoExecs # <<>>)
    => (result = 0 <=> \A i \in DOMAIN CargoExecs : ~IsFailed(CargoExecs[i]))

C3_Witness ==
    /\ MatrixReturned
    /\ Len(CargoExecs) = 3
    /\ IsFailed(CargoExecs[1])
    /\ ~IsFailed(CargoExecs[2])
    /\ ~IsFailed(CargoExecs[3])
    /\ result # 0

\* C4 as claimed: whenever a make/cargo process of build, run, clean,
\* disk_img or clippy exited with a non-zero code c, the operation returns c.
C4_Original ==
    (command \in {"build", "run", "clean", "clippy", "disk_img"} /\ returned)
    => \A i \in DOMAIN ToolExecs :
          (ToolExecs[i].outcome.kind = "exit" /\ ToolExecs[i].outcome.code # 0)
          => result = ToolExecs[i].outcome.code

\* C4 amended: build, run, clean, disk_img and clippy's single pass return
\* the failing process's own exit code c; clippy's matrix sweep returns 1
\* when a cell exited with a non-zero code.  Neither ever returns 0.
C4_ExitCodePropagated ==
    (command \in {"build", "run", "clean", "clippy", "disk_img"} /\ returned)
    => \A i \in DOMAIN ToolExecs :
          (ToolExecs[i].outcome.kind = "exit" /\ ToolExecs[i].outcome.code # 0)
          => /\ result # 0
             /\ result = IF InMatrix THEN 1 ELSE ToolExecs[i].outcome.code

C4_Witness ==
    /\ command = "run"
    /\ returned
    /\ Len(ToolExecs) = 2
    /\ ToolExecs[2].outcome = ExitOutcome(2)
    /\ result = 2

\* the platform-scoped names of a feature list, as a set
PlatSet(fs) == { f \in Range(fs) : Len(f) >= 2 /\ f[1] = "plat" }
GlobalSet(fs) == Range(fs) \ PlatSet(fs)

\* C5: no executed cell carries two distinct plat- features; when the
\* manifest has platform features, a cell's features are exactly one
\* platform feature and every non-platform feature of the manifest.
C5_OnePlatformPerCell ==
    \A i \in DOMAIN CargoExecs :
        LET fs == CargoExecs[i].cmd.features
        IN  /\ Cardinality(PlatSet(fs)) <= 1
            /\ InMatrix =>
                /\ Cardinality(PlatSet(fs)) = 1
                /\ PlatSet(fs) \subseteq PlatSet(manifest.features)
                /\ GlobalSet(fs) = GlobalSet(manifest.features)
                /\ Len(fs) = 1 + Cardinality(GlobalSet(manifest.features))

C5_Witness ==
    /\ MatrixReturned
    /\ Cardinality(PlatSet(manifest.features)) = 2
    /\ Cardinality(GlobalSet(manifest.features)) = 1
    /\ Len(CargoExecs) = 2

\* position of a feature in the manifest's declaration order
PosIn(fs, f) == CHOOSE i \in DOMAIN fs : fs[i] = f

\* the static arch -> target triple table, read independently of the model
TableEntry(tok) ==
    CASE tok = "aarch64" -> "aarch64-unknown-none-softfloat"
      [] tok \in {"x86", "x86_64"} -> "x86_64-unknown-none"
      [] tok \in {"riscv64", "riscv"} -> "riscv64gc-unknown-none-elf"
      [] OTHER -> None

PlatAarch64Qemu == <<"plat", "aarch64", "qemu">>
PlatX86Pc == <<"plat", "x86_64", "pc">>

\* C6: when clippy returns from the matrix sweep there is one cell per
\* platform feature, the cells follow the manifest's declaration order, and
\* a cell's target is the table entry of the second segment of its platform
\* feature; {plat-aarch64-qemu, plat-x86_64-pc, fs} gives the two cells of
\* the spec's example.
C6_CellPerPlatformInOrder ==
    MatrixReturned =>
        /\ Len(CargoExecs) = Cardinality(PlatSet(manifest.features))
        /\ { CargoExecs[i].cmd.features[1] : i \in DOMAIN CargoExecs }
              = PlatSet(manifest.features)
        /\ \A i, j \in DOMAIN CargoExecs :
              i < j => PosIn(manifest.features, CargoExecs[i].cmd.features[1])
                       < PosIn(manifest.features, CargoExecs[j].cmd.features[1])
        /\ \A i \in DOMAIN CargoExecs :
              CargoExecs[i].cmd.target
                 = TableEntry(CargoExecs[i].cmd.features[1][2])
        /\ manifest.features = <<PlatAarch64Qemu, PlatX86Pc, <<"fs">> >>
              => /\ Len(CargoExecs) = 2
                 /\ CargoExecs[1].cmd.features = <<PlatAarch64Qemu, <<"fs">> >>
                 /\ CargoExecs[1].cmd.target = "aarch64-unknown-none-softfloat"
                 /\ CargoExecs[2].cmd.features = <<PlatX86Pc, <<"fs">> >>
                 /\ CargoExecs[2].cmd.target = "x86_64-unknown-none"

C6_Witness ==
    /\ MatrixReturned
    /\ manifest.features = <<PlatAarch64Qemu, PlatX86Pc, <<"fs">> >>
    /\ Len(CargoExecs) = 2

\* clippy got past the manifest and found no platform feature
InSinglePass ==
    /\ command = "clippy"
    /\ setupDone /\ setupOk
    /\ manifest.state = "ok" /\ tomlAvailable
    /\ PlatSet(manifest.features) = {}

\* C7: without platform features clippy executes exactly one process, with
\* no target and the whole manifest feature list, and returns that
\* execution's outcome: its exit code, or 1 when it could not be spawned.
C7_SinglePassWithoutPlatforms ==
    (InSinglePass /\ returned) =>
        /\ Len(CargoExecs) = 1
        /\ CargoExecs[1].cmd.target = None
        /\ CargoExecs[1].cmd.features = manifest.features
        /\ result = IF CargoExecs[1].outcome.kind = "exit"
                    THEN CargoExecs[1].outcome.code ELSE 1

C7_Witness ==
    /\ InSinglePass
    /\ returned
    /\ manifest.features = << <<"fs">>, <<"net">> >>
    /\ result = 2

UnknownArch(p) == p[2] \notin {"aarch64", "x86", "x86_64", "riscv64", "riscv"}

\* C8: a platform feature whose architecture token is not in the table gets
\* its cell executed with no target; the sweep still executes one cell per
\* platform feature and returns 0 when every cell succeeded.
C8_UnknownArchIsNoError ==
    /\ InMatrix =>
        \A i \in DOMAIN CargoExecs :
            UnknownArch(CargoExecs[i].cmd.features[1])
            => CargoExecs[i].cmd.target = None
    /\ MatrixReturned =>
        /\ \A p \in PlatSet(manifest.features) :
              \E i \in DOMAIN CargoExecs : CargoExecs[i].cmd.features[1] = p
        /\ (\A i \in DOMAIN CargoExecs : ~IsFailed(CargoExecs[i])) => result = 0

C8_Witness ==
    /\ MatrixReturned
    /\ manifest.features = << <<"plat", "foo", "bar">>, PlatAarch64Qemu, <<"fs">> >>
    /\ Len(CargoExecs) = 2
    /\ CargoExecs[1].cmd.target = None
    /\ result = 0

BuildExecs == SelectSeq(execs, LAMBDA e : e.cmd.prog = "make" /\ e.cmd.sub = "")

\* C9: build calls save_config_to_file at most once, and the persisted file
\* is written or a save attempted only if setup succeeded, the build process
\* exited with status zero and no file existed when the invocation began;
\* otherwise the file is what it was at the start.
C9_SaveOnlyAfterFreshSuccess ==
    /\ saveCalls <= 1
    /\ (saveCalls > 0 \/ hvconfig # hvconfig0)
        => /\ command \in {"build", "run"}
           /\ ~hvconfig0.exists
           /\ setupDone /\ setupOk
           /\ Len(BuildExecs) = 1
           /\ Succeeded(BuildExecs[1].outcome)

C9_Witness ==
    /\ command = "build"
    /\ returned
    /\ result = 0
    /\ hvconfig0.exists
    /\ Len(BuildExecs) = 1
    /\ saveCalls = 0
    /\ hvconfig = hvconfig0

\* C10: whenever build.main has returned after its make process exited with
\* status zero, it returned 0, whether or not the save succeeded.
C10_SaveFailureNotFatal ==
    (build_result # Unset /\ BuildExecs # <<>> /\ Succeeded(BuildExecs[1].outcome))
    => build_result = 0

\* the save was attempted and failed: the file is still absent
C10_Witness ==
    /\ command = "build"
    /\ returned
    /\ saveCalls = 1
    /\ ~hvconfig.exists
    /\ result = 0

\* C11: when Cargo.toml is missing from the project root or the working
\* directory, or cannot be parsed, clippy never executes cargo and, unless
\* interrupted, exits with a non-zero status.
C11_ManifestMissingIsFatal ==
    (command = "clippy" /\ (~rootManifest \/ manifest.state # "ok"))
    => /\ CargoExecs = <<>>
       /\ pc \notin {"clippy_single", "clippy_loop"}
       /\ returned => result # 0
       /\ ExitedNormally => exitCode # 0

C11_Witness ==
    /\ command = "clippy"
    /\ rootManifest
    /\ manifest.state = "unparseable"
    /\ tomlAvailable
    /\ setupDone /\ setupOk
    /\ returned
    /\ result = 1

WasInterrupted(e) == e.outcome.kind = "interrupt"
HandledFailure(e) == ~Succeeded(e.outcome) /\ ~WasInterrupted(e)

C12_State ==
    /\ \A i \in DOMAIN execs :
          WasInterrupted(execs[i]) => (interrupted /\ i = Len(execs))
    /\ interrupted
        => /\ pc = "done"
           /\ exitCode = 130
           /\ ~returned
           /\ result = Unset
           /\ InMatrix
               => /\ any_failure
                     <=> \E i \in DOMAIN CargoExecs : HandledFailure(CargoExecs[i])
                  /\ idx = Cardinality({ i \in DOMAIN CargoExecs :
                                            ~WasInterrupted(CargoExecs[i]) }) + 1

C12_Step ==
    interrupted => (pc' = "idle" /\ execs' = <<>> /\ ~interrupted')

\* C12: a KeyboardInterrupt, during a process or between two steps, ends
\* the invocation with exit status 130 and no handler result; the
\* interrupted execution is the last one of the invocation, it is not
\* counted in any_failure, the loop position is not advanced, and nothing
\* is executed afterwards.
C12_InterruptExits130 == []C12_State /\ [][C12_Step]_vars

\* the second of three cells is interrupted after the first succeeded
C12_Witness ==
    /\ InMatrix
    /\ interrupted
    /\ Len(plat_features) = 3
    /\ Len(CargoExecs) = 2
    /\ WasInterrupted(CargoExecs[2])
    /\ ~any_failure
    /\ exitCode = 130

\* the platform the precedence rule gives for this invocation
ExpectedPlat ==
    CASE args.plat # None -> args.plat
      [] args.plat = None /\ hvconfig0.exists /\ hvconfig0.plat # None -> hvconfig0.plat
      [] OTHER -> "default-plat"

\* C13: the configuration build and run render into their make commands
\* carries, for its field, the CLI value when one was given, else the value
\* of the persisted file found at the start when it has one, else the
\* default; it is never unresolved.
C13_CliOverPersistedOverDefault ==
    \A i \in DOMAIN ToolExecs :
        ToolExecs[i].cmd.prog = "make" /\ ToolExecs[i].cmd.sub \in {"", "run"}
        => /\ ToolExecs[i].cmd.extra = ExpectedPlat
           /\ ToolExecs[i].cmd.extra # None

\* CLI and persisted file disagree
C13_Witness ==
    /\ command = "run"
    /\ returned
    /\ Len(ToolExecs) = 2
    /\ args.plat = "x86_64-qemu-q35"
    /\ hvconfig0 = [exists |-> TRUE, plat |-> "aarch64-qemu-virt-hv"]
    /\ ToolExecs[2].cmd.extra = "x86_64-qemu-q35"

\* C14: a run invocation executes at most two make processes, the build
\* first; `make run` is executed only as the second one, after the build
\* process succeeded and build.main returned 0; when build.main returns a
\* non-zero code, run returns that code and no run process is executed.
C14_BuildBeforeRun ==
    command = "run" =>
        /\ Len(ToolExecs) <= 2
        /\ Len(ToolExecs) >= 1 => ToolExecs[1].cmd.sub = ""
        /\ \A i \in DOMAIN ToolExecs :
              ToolExecs[i].cmd.sub = "run"
              => /\ i = 2
                 /\ Succeeded(ToolExecs[1].outcome)
                 /\ build_result = 0
        /\ pc = "run_exec" => build_result = 0
        /\ (returned /\ build_result # 0)
              => /\ result = build_result
                 /\ Len(ToolExecs) <= 1

C14_Witness ==
    /\ command = "run"
    /\ returned
    /\ build_result = 2
    /\ result = 2
    /\ Len(ToolExecs) = 1

IsClone(e) == e.cmd.prog = "git" /\ e.cmd.sub = "clone"
CloneExecs == SelectSeq(execs, IsClone)

\* this step executed git clone
CloneStep ==
    /\ Len(execs') = Len(execs) + 1
    /\ IsClone(execs'[Len(execs')])

C15_State ==
    /\ Len(CloneExecs) <= 1
    /\ cloned => arceosDir
    /\ (setupDone /\ CloneExecs = <<>>) => (setupOk /\ arceosDir)
    /\ (setupDone /\ CloneExecs # <<>>)
        => /\ setupOk = Succeeded(CloneExecs[1].outcome)
           /\ arceosDir = Succeeded(CloneExecs[1].outcome)

C15_Step ==
    /\ CloneStep => (~arceosDir /\ ~cloned)
    /\ (CloneStep /\ Succeeded(execs'[Len(execs')].outcome)) => (arceosDir' /\ cloned')
    /\ (pc = "setup" /\ arceosDir /\ pc' = "setup_done")
        => (execs' = execs /\ setupOk')
    /\ arceosDir => arceosDir'
    /\ cloned => cloned'

\* C15: setup_arceos executes git clone only when .arceos is absent, returns
\* true without executing anything when it is present, returns true after a
\* successful clone and false after a failed one; once a clone has
\* succeeded the directory stays and no later invocation clones again.
C15_CloneOnlyWhenAbsent == []C15_State /\ [][C15_Step]_vars

\* a later invocation, after an earlier one's clone succeeded, skips the clone
C15_Witness ==
    /\ cloned
    /\ setupDone
    /\ setupOk
    /\ execs = <<>>

\* what the manifest's feature list alone says clippy executes
ExpectedCells(fs) ==
    LET plats == SelectSeq(fs, LAMBDA f : f \in PlatSet(fs))
        globals == SelectSeq(fs, LAMBDA f : f \notin PlatSet(fs))
    IN  IF plats = <<>>
        THEN << [target |-> None, features |-> fs] >>
        ELSE [i \in DOMAIN plats |->
                [target |-> TableEntry(plats[i][2]),
                 features |-> <<plats[i]>> \o globals]]

\* what the manifest's feature list and the cells' outcomes say it returns
ExpectedResult(fs, cells) ==
    IF PlatSet(fs) = {}
    THEN IF cells[1].outcome.kind = "exit" THEN cells[1].outcome.code ELSE 1
    ELSE IF \E i \in DOMAIN cells : ~Succeeded(cells[i].outcome) THEN 1 ELSE 0

====
